---- MODULE Spec2Model ----
(***************************************************************************)
(* Model of the external scanner of tree-sitter-unison (src/scanner.c).    *)
(*                                                                         *)
(* The scanner keeps one persistent piece of state, the stack of layout    *)
(* indents, and is driven by the host parser through scan, serialize and   *)
(* deserialize.  A scan call runs the rule pipeline scan_all over the      *)
(* host lexer (lookahead, advance, column, eof, mark_end) and the array of *)
(* requested symbols.                                                      *)
(*                                                                         *)
(* The input text is a finite sequence of characters; the lexer reports    *)
(* lookahead NUL and eof exactly at its end.  The DEBUG printing of the    *)
(* source writes to stderr only and is not modelled.                       *)
(***************************************************************************)
EXTENDS Integers, Sequences, FiniteSets, TLC

VARIABLES
  text,           \* the input the host lexer reads (fixed per behaviour)
  col0,           \* column of text[1] in its line (the text is a window of a file)
  pos,            \* host lexer position: index of the next character, Len(text)+1 at eof
  indents,        \* indent_vec: the persistent stack, bottom first (data[0..len-1])
  symbols,        \* requested symbols of the last scan call
  entry,          \* lexer position at which the last scan call was entered
  indents0,       \* the stack at entry of the last scan call
  ret,            \* return value of the last scan call
  result_symbol,  \* lexer->result_symbol
  token_end,      \* end of the token of the last scan call (mark_end, else final position)
  marked,         \* whether the last scan call called mark_end at all
  buffer,         \* the host's serialization buffer (bytes)
  length,         \* the length the last serialize returned
  ckpt,           \* the stack at the time of the last serialize
  op,             \* the last operation the host performed
  run             \* the scan call in progress, when it is followed loop by loop

vars == <<text, col0, pos, indents, symbols, entry, indents0, ret, result_symbol,
          token_end, marked, buffer, length, ckpt, op, run>>

-----------------------------------------------------------------------------
(* Symbols: typedef enum Sym *)

SEMICOLON == 0
START == 1
END == 2
DOT == 3
WHERE == 4
VARSYM == 5
COMMENT == 6
FOLD == 7
COMMA == 8
IN_ == 9
INDENT == 10
EMPTY == 11
FAIL == 12

Syms == SEMICOLON..EMPTY

\* value of result_symbol before any scan call has written it
Unwritten == 0 - 1

-----------------------------------------------------------------------------
(* Characters.  A character is a one-element string; the control          *)
(* characters without a TLA+ escape are named.                             *)

NUL == "NUL"
VT == "VT"
BACKTICK == "BACKTICK"

WS_CASES == {" ", "\f", "\n", "\r", "\t", VT}

isws(c) == c \in WS_CASES

\* iswspace of <wctype.h> on the characters of the model
iswspace(c) == c \in {" ", "\f", "\n", "\r", "\t", VT}

token_end_char(c) == c \in WS_CASES \cup {NUL, "(", ")", "[", "]"}

NEWLINE_CASES == {"\n", "\r", "\f"}

is_newline(c) == c \in NEWLINE_CASES

SYMBOLICS_WITHOUT_BAR ==
  {"!", "#", "$", "%", "&", "*", "+", ".", "/", "<", ">", "?", "^", ":", "=", "-", "~", "@", "\\"}

SYMBOLIC_CASES == SYMBOLICS_WITHOUT_BAR \cup {"|"}

symbolic(c) == c \in SYMBOLIC_CASES

-----------------------------------------------------------------------------
(* Integer widths.  Values of type uint32_t (columns, indents, byte counts) *)
(* stay below 2^31 for every text and stack of the model and are plain     *)
(* integers; values stored as uint16_t are reduced modulo U16.             *)

U16 == 65536

\* TREE_SITTER_SERIALIZATION_BUFFER_SIZE of tree_sitter/parser.h
TREE_SITTER_SERIALIZATION_BUFFER_SIZE == 1024

-----------------------------------------------------------------------------
(* The State of one scan call: the lexer (position, marked end), the       *)
(* requested symbols and the indent stack.  mark = NoMark until mark_end   *)
(* is called.                                                              *)

NoMark == 0

state_new(p, vs, is) == [pos |-> p, mark |-> NoMark, symbols |-> vs, indents |-> is]

PEEK(state) == IF state.pos > Len(text) THEN NUL ELSE text[state.pos]

is_eof(state) == state.pos > Len(text)

\* lexer->advance(lexer, false): one character to the right, nothing at eof
S_ADVANCE(state) == IF state.pos > Len(text) THEN state ELSE [state EXCEPT !.pos = @ + 1]

\* lexer->advance(lexer, true): as S_ADVANCE, the character is left out of the token
S_SKIP(state) == IF state.pos > Len(text) THEN state ELSE [state EXCEPT !.pos = @ + 1]

SYM(s, state) == s \in state.symbols

\* lexer->get_column: characters since the last line feed before position p
RECURSIVE get_column(_)
get_column(p) ==
  IF p = 1 THEN col0
  ELSE IF text[p - 1] = "\n" THEN 0
  ELSE get_column(p - 1) + 1

column(state) == IF is_eof(state) THEN 0 ELSE get_column(state.pos)

MARK(state) == [state EXCEPT !.mark = state.pos]

all_syms(syms) == \A i \in SEMICOLON..EMPTY : i \in syms

after_error(state) == all_syms(state.symbols)

-----------------------------------------------------------------------------
(* Result: continue / finish(sym) / fail, together with the State as the   *)
(* rule left it.                                                           *)

res_cont(state) == [sym |-> FAIL, finished |-> FALSE, state |-> state]

res_finish(t, state) == [sym |-> t, finished |-> TRUE, state |-> state]

res_fail(state) == [sym |-> FAIL, finished |-> TRUE, state |-> state]

finish(s, state) == res_finish(s, state)

finish_if_valid(s, state) == IF SYM(s, state) THEN finish(s, state) ELSE res_cont(state)

-----------------------------------------------------------------------------
(* Conditions *)

RECURSIVE seq(_, _)
seq(s, state) ==
  IF s = <<>> THEN [ok |-> TRUE, state |-> state]
  ELSE IF Head(s) # PEEK(state) THEN [ok |-> FALSE, state |-> state]
  ELSE seq(Tail(s), S_ADVANCE(state))

token(s, state) ==
  LET r == seq(s, state)
  IN [ok |-> r.ok /\ token_end_char(PEEK(r.state)), state |-> r.state]

indent_exists(state) == Len(state.indents) # 0

VEC_BACK(vec) == vec[Len(vec)]

same_indent(indent, state) == indent_exists(state) /\ indent = VEC_BACK(state.indents)

smaller_indent(indent, state) == indent_exists(state) /\ indent < VEC_BACK(state.indents)

indent_lesseq(indent, state) == indent_exists(state) /\ indent <= VEC_BACK(state.indents)

-----------------------------------------------------------------------------
(* Indent stack *)

\* push that stores the entry twice
push_twice(ind, state) == [state EXCEPT !.indents = Append(Append(@, ind % U16), ind % U16)]

\* push(uint16_t ind, ...): the argument is converted to 16 bits
push(ind, state) == [state EXCEPT !.indents = Append(@, ind % U16)]

\* pop that closes every layout
pop_all(state) == [state EXCEPT !.indents = <<>>]

pop(state) ==
  IF indent_exists(state)
  THEN [state EXCEPT !.indents = SubSeq(@, 1, Len(@) - 1)]
  ELSE state

RECURSIVE skipspace(_)
skipspace(state) ==
  IF PEEK(state) \in {" ", "\t"} THEN skipspace(S_SKIP(state)) ELSE state

\* layout_end that emits END and leaves the layout open
layout_end_no_pop(state) ==
  IF SYM(END, state) THEN finish(END, state) ELSE res_cont(state)

layout_end(state) ==
  IF SYM(END, state) THEN finish(END, pop(state)) ELSE res_cont(state)

end_or_semicolon(state) ==
  LET res == layout_end(state)
  IN IF res.finished THEN res ELSE finish_if_valid(SEMICOLON, res.state)

RECURSIVE count_indent_from(_, _)
count_indent_from(indent, state) ==
  IF is_newline(PEEK(state)) THEN count_indent_from(0, S_SKIP(state))
  ELSE IF PEEK(state) = " " THEN count_indent_from(indent + 1, S_SKIP(state))
  ELSE IF PEEK(state) = "\t" THEN count_indent_from(indent + 8, S_SKIP(state))
  ELSE [indent |-> indent, state |-> state]

count_indent(state) == count_indent_from(0, state)

\* eof with the layout end tried before EMPTY
eof_end_first(state) ==
  IF is_eof(state)
  THEN LET res == end_or_semicolon(state)
       IN IF res.finished THEN res
          ELSE IF SYM(EMPTY, res.state) THEN finish(EMPTY, res.state)
          ELSE res_fail(res.state)
  ELSE res_cont(state)

eof(state) ==
  IF is_eof(state)
  THEN IF SYM(EMPTY, state) THEN finish(EMPTY, state)
       ELSE LET res == end_or_semicolon(state)
            IN IF res.finished THEN res ELSE res_fail(res.state)
  ELSE res_cont(state)

-----------------------------------------------------------------------------
(* Token disambiguators *)

\* dot that never takes the dot for an operator
dot_always_dot(state) ==
  IF SYM(DOT, state) /\ PEEK(state) = "."
  THEN finish(DOT, MARK(S_ADVANCE(state)))
  ELSE res_cont(state)

dot(state) ==
  IF SYM(DOT, state) /\ PEEK(state) = "."
  THEN LET s1 == S_ADVANCE(state)
       IN IF SYM(VARSYM, s1) /\ iswspace(PEEK(s1))
          THEN finish(VARSYM, s1)
          ELSE finish(DOT, MARK(s1))
  ELSE res_cont(state)

\* while(!is_eof(state)) S_ADVANCE;
RECURSIVE advance_to_eof(_)
advance_to_eof(state) ==
  IF is_eof(state) THEN state ELSE advance_to_eof(S_ADVANCE(state))

\* fold that marks the end right after the three dashes
fold_no_advance(state) ==
  LET r == seq(<<"-", "-", "-">>, state)
  IN IF r.ok THEN finish(FOLD, MARK(r.state))
     ELSE res_cont(r.state)

fold(state) ==
  LET r == seq(<<"-", "-", "-">>, state)
  IN IF r.ok THEN finish(FOLD, MARK(advance_to_eof(r.state)))
     ELSE res_cont(r.state)

dedent(indent, state) ==
  IF smaller_indent(indent, state) THEN layout_end(state) ELSE res_cont(state)

newline_semicolon(indent, state) ==
  IF SYM(SEMICOLON, state) /\ same_indent(indent, state)
  THEN finish(SEMICOLON, state)
  ELSE res_cont(state)

\* where that ends the layout before it looks at WHERE
where_end_first(state) ==
  LET r == token(<<"w", "h", "e", "r", "e">>, state)
  IN IF r.ok
     THEN LET res == layout_end(r.state)
          IN IF res.finished THEN res
             ELSE IF SYM(WHERE, r.state) THEN finish(WHERE, MARK(r.state))
             ELSE res_cont(r.state)
     ELSE res_cont(r.state)

where(state) ==
  LET r == token(<<"w", "h", "e", "r", "e">>, state)
  IN IF r.ok
     THEN IF SYM(WHERE, r.state) THEN finish(WHERE, MARK(r.state))
          ELSE layout_end(r.state)
     ELSE res_cont(r.state)

\* in that emits IN and leaves the layout open
in_no_pop(state) ==
  IF SYM(IN_, state)
  THEN LET r == token(<<"i", "n">>, state)
       IN IF r.ok THEN finish(IN_, MARK(r.state))
          ELSE res_cont(r.state)
  ELSE res_cont(state)

in(state) ==
  IF SYM(IN_, state)
  THEN LET r == token(<<"i", "n">>, state)
       IN IF r.ok THEN finish(IN_, pop(MARK(r.state)))
          ELSE res_cont(r.state)
  ELSE res_cont(state)

else_(state) ==
  LET r == token(<<"e", "l", "s", "e">>, state)
  IN IF r.ok THEN layout_end(r.state) ELSE res_cont(r.state)

RECURSIVE inline_comment(_)
inline_comment(state) ==
  IF PEEK(state) \in NEWLINE_CASES \cup {NUL}
  THEN finish(COMMENT, MARK(state))
  ELSE inline_comment(S_ADVANCE(state))

minus(state) ==
  LET r == seq(<<"-", "-">>, state)
  IN IF ~r.ok THEN res_cont(r.state)
     ELSE IF PEEK(r.state) = "-"
     THEN LET s1 == S_ADVANCE(r.state)
          IN IF is_eof(s1) \/ is_newline(PEEK(s1))
             THEN finish(FOLD, MARK(advance_to_eof(s1)))
             ELSE res_fail(s1)
     ELSE inline_comment(r.state)

multiline_comment_success(state) == finish(COMMENT, MARK(state))

\* multiline_comment that ends at the first closer, whatever the level
RECURSIVE multiline_comment_flat(_, _)
multiline_comment_flat(level, state) ==
  IF PEEK(state) = "-"
  THEN LET s1 == S_ADVANCE(state)
       IN IF PEEK(s1) = "}"
          THEN multiline_comment_success(S_ADVANCE(s1))
          ELSE multiline_comment_flat(level, s1)
  ELSE IF PEEK(state) = NUL
  THEN LET res == eof(state)
       IN IF res.finished THEN res ELSE res_fail(res.state)
  ELSE multiline_comment_flat(level, S_ADVANCE(state))

\* multiline_comment that fails at NUL without asking the eof rule
RECURSIVE multiline_comment_no_eof(_, _)
multiline_comment_no_eof(level, state) ==
  IF PEEK(state) = "{"
  THEN LET s1 == S_ADVANCE(state)
       IN IF PEEK(s1) = "-"
          THEN multiline_comment_no_eof((level + 1) % U16, S_ADVANCE(s1))
          ELSE multiline_comment_no_eof(level, s1)
  ELSE IF PEEK(state) = "-"
  THEN LET s1 == S_ADVANCE(state)
       IN IF PEEK(s1) = "}"
          THEN IF level = 0
               THEN multiline_comment_success(S_ADVANCE(s1))
               ELSE multiline_comment_no_eof(level - 1, S_ADVANCE(s1))
          ELSE multiline_comment_no_eof(level, s1)
  ELSE IF PEEK(state) = NUL
  THEN res_fail(state)
  ELSE multiline_comment_no_eof(level, S_ADVANCE(state))

\* the loop of multiline_comment with the current nesting level (uint16_t)
RECURSIVE multiline_comment_from(_, _)
multiline_comment_from(level, state) ==
  IF PEEK(state) = "{"
  THEN LET s1 == S_ADVANCE(state)
       IN IF PEEK(s1) = "-"
          THEN multiline_comment_from((level + 1) % U16, S_ADVANCE(s1))
          ELSE multiline_comment_from(level, s1)
  ELSE IF PEEK(state) = "-"
  THEN LET s1 == S_ADVANCE(state)
       IN IF PEEK(s1) = "}"
          THEN IF level = 0
               THEN multiline_comment_success(S_ADVANCE(s1))
               ELSE multiline_comment_from(level - 1, S_ADVANCE(s1))
          ELSE multiline_comment_from(level, s1)
  ELSE IF PEEK(state) = NUL
  THEN LET res == eof(state)
       IN IF res.finished THEN res ELSE res_fail(res.state)
  ELSE multiline_comment_from(level, S_ADVANCE(state))

multiline_comment(state) == multiline_comment_from(0, state)

brace(state) ==
  IF PEEK(state) # "{" THEN res_fail(state)
  ELSE LET s1 == S_ADVANCE(state)
       IN IF PEEK(s1) # "-" THEN res_fail(s1)
          ELSE multiline_comment(S_ADVANCE(s1))

comment(state) ==
  IF PEEK(state) = "-"
  THEN LET res == minus(state)
       IN IF res.finished THEN res ELSE res_fail(res.state)
  ELSE IF PEEK(state) = "{"
  THEN LET res == brace(state)
       IN IF res.finished THEN res ELSE res_fail(res.state)
  ELSE res_cont(state)

\* close_layout_in_list that pops at a comma before it looks at COMMA
close_layout_in_list_pop_first(state) ==
  IF PEEK(state) = "]"
  THEN IF SYM(END, state) THEN finish(END, pop(state)) ELSE res_cont(state)
  ELSE IF PEEK(state) = ","
  THEN LET s1 == pop(S_ADVANCE(state))
       IN IF SYM(COMMA, s1) THEN finish(COMMA, MARK(s1))
          ELSE IF SYM(END, s1) THEN finish(END, s1)
          ELSE res_fail(s1)
  ELSE res_cont(state)

\* close_layout_in_list that ends the layout at a comma before it looks
\* at COMMA
close_layout_in_list_end_first(state) ==
  IF PEEK(state) = "]"
  THEN IF SYM(END, state) THEN finish(END, pop(state)) ELSE res_cont(state)
  ELSE IF PEEK(state) = ","
  THEN LET s1 == S_ADVANCE(state)
           res == layout_end(s1)
       IN IF res.finished THEN res
          ELSE IF SYM(COMMA, s1) THEN finish(COMMA, MARK(s1))
          ELSE res_fail(s1)
  ELSE res_cont(state)

close_layout_in_list(state) ==
  IF PEEK(state) = "]"
  THEN IF SYM(END, state) THEN finish(END, pop(state)) ELSE res_cont(state)
  ELSE IF PEEK(state) = ","
  THEN LET s1 == S_ADVANCE(state)
       IN IF SYM(COMMA, s1) THEN finish(COMMA, MARK(s1))
          ELSE LET res == layout_end(s1)
               IN IF res.finished THEN res ELSE res_fail(res.state)
  ELSE res_cont(state)

inline_tokens(state) ==
  IF PEEK(state) = "w"
  THEN LET res == where(state)
       IN IF res.finished THEN res ELSE res_fail(res.state)
  ELSE IF PEEK(state) = "i"
  THEN LET res == in(state)
       IN IF res.finished THEN res ELSE res_fail(res.state)
  ELSE IF PEEK(state) = "e"
  THEN LET res == else_(state)
       IN IF res.finished THEN res ELSE res_fail(res.state)
  ELSE IF PEEK(state) = ")"
  THEN LET res == layout_end(state)
       IN IF res.finished THEN res ELSE res_fail(res.state)
  ELSE close_layout_in_list(state)

-----------------------------------------------------------------------------
(* Dispatch pipelines *)

\* layout_start that emits START without the push
layout_start_no_push(col, state) ==
  IF SYM(START, state) THEN finish(START, state) ELSE res_cont(state)

layout_start(col, state) ==
  IF SYM(START, state) THEN finish(START, push(col, state)) ELSE res_cont(state)

post_end_semicolon(col, state) ==
  IF SYM(SEMICOLON, state) /\ indent_lesseq(col, state)
  THEN finish(SEMICOLON, state)
  ELSE res_cont(state)

repeat_end(col, state) ==
  IF SYM(END, state) /\ smaller_indent(col, state)
  THEN layout_end(state)
  ELSE res_cont(state)

\* newline_indent that opens a layout at the indent of the next line
newline_indent_start(indent, state) ==
  LET res0 == layout_start(indent, state)
  IN IF res0.finished THEN res0
     ELSE LET res == dedent(indent, res0.state)
          IN IF res.finished THEN res
             ELSE LET res2 == close_layout_in_list(res.state)
                  IN IF res2.finished THEN res2
                     ELSE newline_semicolon(indent, res2.state)

newline_indent(indent, state) ==
  LET res == dedent(indent, state)
  IN IF res.finished THEN res
     ELSE LET res2 == close_layout_in_list(res.state)
          IN IF res2.finished THEN res2
             ELSE newline_semicolon(indent, res2.state)

\* newline_token that goes on to the rules of the indent at an operator
newline_token_infix(indent, state) ==
  IF PEEK(state) = "-" THEN minus(state)
  ELSE IF PEEK(state) = "i" THEN in(state)
  ELSE res_cont(state)

newline_token(indent, state) ==
  IF PEEK(state) = "-" THEN minus(state)
  ELSE IF PEEK(state) \in SYMBOLIC_CASES \cup {BACKTICK} THEN res_fail(state)
  ELSE IF PEEK(state) = "i" THEN in(state)
  ELSE res_cont(state)

newline(indent, state) ==
  LET res == eof(state)
  IN IF res.finished THEN res
     ELSE LET res2 == comment(res.state)
          IN IF res2.finished THEN res2
             ELSE LET res3 == newline_token(indent, res2.state)
                  IN IF res3.finished THEN res3
                     ELSE newline_indent(indent, res3.state)

\* immediate that tries the layout end before the semicolon
immediate_end_first(col, state) ==
  LET res == layout_start(col, state)
  IN IF res.finished THEN res
     ELSE LET res2 == repeat_end(col, res.state)
          IN IF res2.finished THEN res2
             ELSE LET res3 == post_end_semicolon(col, res2.state)
                  IN IF res3.finished THEN res3
                     ELSE inline_tokens(res3.state)

immediate(col, state) ==
  LET res == layout_start(col, state)
  IN IF res.finished THEN res
     ELSE LET res2 == post_end_semicolon(col, res.state)
          IN IF res2.finished THEN res2
             ELSE LET res3 == repeat_end(col, res2.state)
                  IN IF res3.finished THEN res3
                     ELSE inline_tokens(res3.state)

\* init without the after-error check
init_no_after_error(state) ==
  LET res == eof(state)
  IN IF res.finished THEN res
     ELSE LET res2 == dot(res.state)
          IN IF res2.finished THEN res2
             ELSE IF SYM(FOLD, res2.state)
                  THEN fold(res2.state)
                  ELSE res_cont(res2.state)

init(state) ==
  LET res == eof(state)
  IN IF res.finished THEN res
     ELSE IF after_error(res.state) THEN res_fail(res.state)
     ELSE LET res2 == dot(res.state)
          IN IF res2.finished THEN res2
             ELSE IF SYM(FOLD, res2.state)
                  THEN fold(res2.state)
                  ELSE res_cont(res2.state)

scan_main(state) ==
  LET s1 == skipspace(state)
      res == eof(s1)
  IN IF res.finished THEN res
     ELSE LET s2 == MARK(res.state)
          IN IF is_newline(PEEK(s2))
             THEN LET ci == count_indent(S_SKIP(s2))
                  IN newline(ci.indent, ci.state)
             ELSE immediate(column(s2), s2)

scan_all(state) ==
  LET res == init(state)
  IN IF res.finished THEN res ELSE scan_main(res.state)

\* eval that takes every finished result for a success
eval_finished_only(result) == result.finished

\* eval: the return value of scan and whether result_symbol is written
eval(result) == result.finished /\ result.sym # FAIL

-----------------------------------------------------------------------------
(* API: serialize and deserialize.  An entry of the stack is a uint16_t,   *)
(* two bytes in host byte order (low byte first).                          *)

bytes_of(data) ==
  [j \in 1..(2 * Len(data)) |->
     IF j % 2 = 1 THEN data[(j + 1) \div 2] % 256 ELSE data[j \div 2] \div 256]

\* entries read back high byte first
entries_of_swapped(buf, els) == [i \in 1..els |-> 256 * buf[2 * i - 1] + buf[2 * i]]

\* memcpy(indents->data, buffer, length) read back as els uint16_t entries
entries_of(buf, els) == [i \in 1..els |-> buf[2 * i - 1] + 256 * buf[2 * i]]

\* memcpy(dst, src, n): the first n bytes of dst are replaced
memcpy(dst, src, n) ==
  SubSeq(src, 1, n) \o (IF Len(dst) > n THEN SubSeq(dst, n + 1, Len(dst)) ELSE <<>>)

\* the return value of a serialize that ignores the size of the buffer
serialize_length_uncapped(vec) == 2 * Len(vec)

\* the value tree_sitter_unison_external_scanner_serialize returns
serialize_length(vec) ==
  LET to_copy == 2 * Len(vec)
  IN IF to_copy > TREE_SITTER_SERIALIZATION_BUFFER_SIZE THEN 0 ELSE to_copy

\* the buffer tree_sitter_unison_external_scanner_serialize leaves
serialize_buffer(vec, buf) ==
  LET to_copy == 2 * Len(vec)
  IN IF to_copy > TREE_SITTER_SERIALIZATION_BUFFER_SIZE THEN buf
     ELSE memcpy(buf, bytes_of(vec), to_copy)

\* deserialize that empties the stack when the buffer holds no entry
deserialize_clear(vec, buf, len) ==
  LET els == len \div 2
  IN IF els > 0 THEN entries_of(buf, els) ELSE <<>>

\* the stack tree_sitter_unison_external_scanner_deserialize leaves
deserialize(vec, buf, len) ==
  LET els == len \div 2
  IN IF els > 0 THEN entries_of(buf, els) ELSE vec

-----------------------------------------------------------------------------
(* A scan call followed loop by loop: the place in the pipeline, the State,*)
(* the locals of the loops (indent of count_indent, level of              *)
(* multiline_comment) and the Result once the pipeline has ended.          *)

Idle ==
  [pc |-> "idle", state |-> state_new(1, {}, <<>>), indent |-> 0, level |-> 0,
   sym |-> FAIL, finished |-> FALSE]

\* the pipeline is at place p with State st
goto(r, p, st) == [r EXCEPT !.pc = p, !.state = st]

\* the pipeline has ended with Result res
done(r, res) ==
  [r EXCEPT !.pc = "done", !.state = res.state, !.sym = res.sym, !.finished = res.finished]

\* init, up to the loop of fold
step_init(r) ==
  LET res == eof(r.state)
  IN IF res.finished THEN done(r, res)
     ELSE IF after_error(res.state) THEN done(r, res_fail(res.state))
     ELSE LET res2 == dot(res.state)
          IN IF res2.finished THEN done(r, res2)
             ELSE IF SYM(FOLD, res2.state)
                  THEN LET q == seq(<<"-", "-", "-">>, res2.state)
                       IN IF q.ok THEN goto(r, "fold", q.state)
                          ELSE goto(r, "skipspace", q.state)
                  ELSE goto(r, "skipspace", res2.state)

\* fold: while(!is_eof(state)) S_ADVANCE; then mark and finish
step_fold(r) ==
  IF ~is_eof(r.state) THEN goto(r, "fold", S_ADVANCE(r.state))
  ELSE done(r, finish(FOLD, MARK(r.state)))

\* one iteration of skipspace; at its exit the rest of scan_main up to the
\* loop of count_indent
step_skipspace(r) ==
  IF PEEK(r.state) \in {" ", "\t"} THEN goto(r, "skipspace", S_SKIP(r.state))
  ELSE LET res == eof(r.state)
       IN IF res.finished THEN done(r, res)
          ELSE LET s2 == MARK(res.state)
               IN IF is_newline(PEEK(s2))
                  THEN [goto(r, "count_indent", S_SKIP(s2)) EXCEPT !.indent = 0]
                  ELSE done(r, immediate(column(s2), s2))

\* one iteration of count_indent
step_count_indent(r) ==
  IF is_newline(PEEK(r.state))
  THEN [goto(r, "count_indent", S_SKIP(r.state)) EXCEPT !.indent = 0]
  ELSE IF PEEK(r.state) = " "
  THEN [goto(r, "count_indent", S_SKIP(r.state)) EXCEPT !.indent = @ + 1]
  ELSE IF PEEK(r.state) = "\t"
  THEN [goto(r, "count_indent", S_SKIP(r.state)) EXCEPT !.indent = @ + 8]
  ELSE goto(r, "newline", r.state)

\* newline(indent): eof, comment (up to the loops of minus, inline_comment
\* and multiline_comment), newline_token, newline_indent
step_newline(r) ==
  LET res == eof(r.state)
  IN IF res.finished THEN done(r, res)
     ELSE IF PEEK(res.state) = "-"
     THEN LET q == seq(<<"-", "-">>, res.state)
          IN IF ~q.ok THEN done(r, res_fail(q.state))
             ELSE IF PEEK(q.state) = "-"
             THEN LET s1 == S_ADVANCE(q.state)
                  IN IF is_eof(s1) \/ is_newline(PEEK(s1))
                     THEN goto(r, "minus", s1)
                     ELSE done(r, res_fail(s1))
             ELSE goto(r, "inline_comment", q.state)
     ELSE IF PEEK(res.state) = "{"
     THEN LET s1 == S_ADVANCE(res.state)
          IN IF PEEK(s1) # "-" THEN done(r, res_fail(s1))
             ELSE [goto(r, "multiline_comment", S_ADVANCE(s1)) EXCEPT !.level = 0]
     ELSE LET res3 == newline_token(r.indent, res.state)
          IN IF res3.finished THEN done(r, res3)
             ELSE done(r, newline_indent(r.indent, res3.state))

\* minus: while(!is_eof(state)) S_ADVANCE; then mark and finish
step_minus(r) ==
  IF ~is_eof(r.state) THEN goto(r, "minus", S_ADVANCE(r.state))
  ELSE done(r, finish(FOLD, MARK(r.state)))

\* one iteration of inline_comment
step_inline_comment(r) ==
  IF PEEK(r.state) \in NEWLINE_CASES \cup {NUL}
  THEN done(r, finish(COMMENT, MARK(r.state)))
  ELSE goto(r, "inline_comment", S_ADVANCE(r.state))

\* an iteration of multiline_comment without the case for NUL
step_multiline_comment_no_nul(r) ==
  IF PEEK(r.state) = "{"
  THEN LET s1 == S_ADVANCE(r.state)
       IN IF PEEK(s1) = "-"
          THEN [goto(r, "multiline_comment", S_ADVANCE(s1)) EXCEPT !.level = (@ + 1) % U16]
          ELSE goto(r, "multiline_comment", s1)
  ELSE IF PEEK(r.state) = "-"
  THEN LET s1 == S_ADVANCE(r.state)
       IN IF PEEK(s1) = "}"
          THEN IF r.level = 0
               THEN done(r, multiline_comment_success(S_ADVANCE(s1)))
               ELSE [goto(r, "multiline_comment", S_ADVANCE(s1)) EXCEPT !.level = @ - 1]
          ELSE goto(r, "multiline_comment", s1)
  ELSE goto(r, "multiline_comment", S_ADVANCE(r.state))

\* one iteration of multiline_comment
step_multiline_comment(r) ==
  IF PEEK(r.state) = "{"
  THEN LET s1 == S_ADVANCE(r.state)
       IN IF PEEK(s1) = "-"
          THEN [goto(r, "multiline_comment", S_ADVANCE(s1)) EXCEPT !.level = (@ + 1) % U16]
          ELSE goto(r, "multiline_comment", s1)
  ELSE IF PEEK(r.state) = "-"
  THEN LET s1 == S_ADVANCE(r.state)
       IN IF PEEK(s1) = "}"
          THEN IF r.level = 0
               THEN done(r, multiline_comment_success(S_ADVANCE(s1)))
               ELSE [goto(r, "multiline_comment", S_ADVANCE(s1)) EXCEPT !.level = @ - 1]
          ELSE goto(r, "multiline_comment", s1)
  ELSE IF PEEK(r.state) = NUL
  THEN LET res == eof(r.state)
       IN IF res.finished THEN done(r, res) ELSE done(r, res_fail(res.state))
  ELSE goto(r, "multiline_comment", S_ADVANCE(r.state))

\* the places of the pipeline at which a loop iterates
LoopPlaces == {"fold", "skipspace", "count_indent", "minus", "inline_comment",
               "multiline_comment"}

\* one step of the pipeline
step(r) ==
  CASE r.pc = "init" -> step_init(r)
    [] r.pc = "fold" -> step_fold(r)
    [] r.pc = "skipspace" -> step_skipspace(r)
    [] r.pc = "count_indent" -> step_count_indent(r)
    [] r.pc = "newline" -> step_newline(r)
    [] r.pc = "minus" -> step_minus(r)
    [] r.pc = "inline_comment" -> step_inline_comment(r)
    [] r.pc = "multiline_comment" -> step_multiline_comment(r)

-----------------------------------------------------------------------------
(* Bounds of the model *)

MaxLen == 3
MaxStack == 2
MaxIndent == 1

\* value of ckpt before any serialize call
NoCkpt == <<U16>>

RECURSIVE SeqsUpTo(_, _)
SeqsUpTo(S, n) ==
  IF n = 0 THEN {<<>>}
  ELSE LET shorter == SeqsUpTo(S, n - 1)
       IN shorter \cup {Append(q, x) : q \in {r \in shorter : Len(r) = n - 1}, x \in S}

RECURSIVE Flatten(_)
Flatten(ws) == IF ws = <<>> THEN <<>> ELSE Head(ws) \o Flatten(Tail(ws))

\* the input texts: up to MaxLen words, each a character or a keyword
Words == {<<" ">>, <<"\n">>, <<"-">>, <<",">>, <<"x">>, <<"i", "n">>}

Texts == {Flatten(ws) : ws \in SeqsUpTo(Words, MaxLen)}

\* the stacks a scan call is entered with: they leave room for one push
Stacks == SeqsUpTo(0..MaxIndent, MaxStack - 1)

\* requested-symbol arrays the host passes: none, one symbol, pairs of
\* symbols that one rule or two rules in sequence consult, and the array
\* after an error (all symbols) with a near miss
SymSets ==
  {{}} \cup {{a} : a \in Syms}
       \cup {{SEMICOLON, END}, {SEMICOLON, START}, {START, END},
             {EMPTY, END}, {EMPTY, SEMICOLON}, {FOLD, START}, {FOLD, SEMICOLON},
             {FOLD, END}, {COMMA, END}, {IN_, END}}
       \cup {Syms \ {EMPTY}, Syms}

-----------------------------------------------------------------------------
(* Operations of the host on the scanner *)

\* tree_sitter_unison_external_scanner_scan, and the host lexer's position
\* after it: the end of the token when scan returns true, the entry
\* position when it returns false.
Scan(syms) ==
  LET result == scan_all(state_new(pos, syms, indents))
      ok == eval(result)
      final == result.state
      tend == IF final.mark = NoMark THEN final.pos ELSE final.mark
  IN /\ Len(final.indents) <= MaxStack
     /\ indents' = final.indents
     /\ symbols' = syms
     /\ entry' = pos
     /\ indents0' = indents
     /\ ret' = ok
     /\ result_symbol' = IF ok THEN result.sym ELSE result_symbol
     /\ token_end' = tend
     /\ marked' = (final.mark # NoMark)
     /\ pos' = IF ok THEN tend ELSE pos
     /\ op' = "scan"
     /\ UNCHANGED <<text, col0, buffer, length, ckpt, run>>

\* the generated lexer of the host consumes one character
HostLex ==
  /\ pos <= Len(text)
  /\ pos' = pos + 1
  /\ op' = "lex"
  /\ UNCHANGED <<text, col0, indents, symbols, entry, indents0, ret, result_symbol,
                 token_end, marked, buffer, length, ckpt, run>>

\* tree_sitter_unison_external_scanner_serialize at a checkpoint
Serialize ==
  /\ buffer' = serialize_buffer(indents, buffer)
  /\ length' = serialize_length(indents)
  /\ ckpt' = indents
  /\ op' = "serialize"
  /\ UNCHANGED <<text, col0, pos, indents, symbols, entry, indents0, ret, result_symbol,
                 token_end, marked, run>>

\* tree_sitter_unison_external_scanner_deserialize with the buffer and the
\* length of the last checkpoint
Deserialize ==
  /\ ckpt # NoCkpt
  /\ indents' = deserialize(indents, buffer, length)
  /\ op' = "deserialize"
  /\ UNCHANGED <<text, col0, pos, symbols, entry, indents0, ret, result_symbol,
                 token_end, marked, buffer, length, ckpt, run>>

-----------------------------------------------------------------------------
(* One scan call from every input, stack and requested-symbol array *)

InitScan ==
  /\ text \in Texts
  /\ col0 = 0
  /\ pos = 1
  /\ indents \in Stacks
  /\ symbols = {}
  /\ entry = 1
  /\ indents0 = indents
  /\ ret = FALSE
  /\ result_symbol = Unwritten
  /\ token_end = 1
  /\ marked = FALSE
  /\ buffer = <<>>
  /\ length = 0
  /\ ckpt = NoCkpt
  /\ op = "create"
  /\ run = Idle

ScanOnce == op = "create" /\ \E syms \in SymSets : Scan(syms)

NextScan == ScanOnce

SpecScan == InitScan /\ [][NextScan]_vars

-----------------------------------------------------------------------------
(* The scanner from its creation: the host scans, lexes, takes checkpoints *)
(* and rewinds to them, in any order.                                      *)

\* the input texts of the host sessions
SessionWords == {<<" ">>, <<"\n">>, <<"x">>}

SessionTexts == {Flatten(ws) : ws \in SeqsUpTo(SessionWords, MaxLen)}

\* requested-symbol arrays of the host sessions
SessionSymSets == {{START}, {SEMICOLON, END}, {EMPTY}, Syms}

\* tree_sitter_unison_external_scanner_create: calloc, the empty stack
Init ==
  /\ text \in SessionTexts
  /\ col0 = 0
  /\ pos = 1
  /\ indents = <<>>
  /\ symbols = {}
  /\ entry = 1
  /\ indents0 = <<>>
  /\ ret = FALSE
  /\ result_symbol = Unwritten
  /\ token_end = 1
  /\ marked = FALSE
  /\ buffer = <<>>
  /\ length = 0
  /\ ckpt = NoCkpt
  /\ op = "create"
  /\ run = Idle

ScanCall == \E syms \in SessionSymSets : Scan(syms)

Next == ScanCall \/ HostLex \/ Serialize \/ Deserialize

Spec == Init /\ [][Next]_vars

-----------------------------------------------------------------------------
(* Checkpoints of stacks whose entries use both bytes of a uint16_t *)

\* entries of the checkpointed stacks
SerVals == {0, 1, 255, 256, U16 - 1}

SerSymSets == {{START}, {END}}

\* the number of entries that fill the buffer of a checkpoint
CapEntries == TREE_SITTER_SERIALIZATION_BUFFER_SIZE \div 2

\* a stack that fills the buffer and one that is an entry too long for it
LongStacks == {[i \in 1..n |-> i % 2] : n \in {CapEntries, CapEntries + 1}}

InitSer ==
  /\ text \in {<<>>, <<"x">>}
  /\ col0 = 0
  /\ pos = 1
  /\ indents \in SeqsUpTo(SerVals, MaxStack) \cup LongStacks
  /\ symbols = {}
  /\ entry = 1
  /\ indents0 = indents
  /\ ret = FALSE
  /\ result_symbol = Unwritten
  /\ token_end = 1
  /\ marked = FALSE
  \* what the buffer the host passes holds before the first checkpoint
  /\ buffer \in {<<>>, <<7, 7, 7, 7, 7, 7>>}
  /\ length = 0
  /\ ckpt = NoCkpt
  /\ op = "create"
  /\ run = Idle

ScanSer == \E syms \in SerSymSets : Scan(syms)

NextSer == ScanSer \/ Serialize \/ Deserialize

SpecSer == InitSer /\ [][NextSer]_vars

-----------------------------------------------------------------------------
(* One scan call entered at the newline in front of a line that begins     *)
(* with a block comment                                                    *)

MaxComment == 5

\* what follows the opening brace and dash: up to MaxComment words
CommentWords == {<<"{", "-">>, <<"-", "}">>, <<"x">>, <<"-">>, <<"{">>}

CommentTexts ==
  {<<"\n", "{", "-">> \o Flatten(ws) : ws \in SeqsUpTo(CommentWords, MaxComment)}

CommentSymSets == {{COMMENT}, {SEMICOLON, END}, {EMPTY, END}}

InitComment ==
  /\ text \in CommentTexts
  /\ col0 = 0
  /\ pos = 1
  /\ indents \in {<<>>, <<1>>}
  /\ symbols = {}
  /\ entry = 1
  /\ indents0 = indents
  /\ ret = FALSE
  /\ result_symbol = Unwritten
  /\ token_end = 1
  /\ marked = FALSE
  /\ buffer = <<>>
  /\ length = 0
  /\ ckpt = NoCkpt
  /\ op = "create"
  /\ run = Idle

ScanComment == op = "create" /\ \E syms \in CommentSymSets : Scan(syms)

NextComment == ScanComment

SpecComment == InitComment /\ [][NextComment]_vars

-----------------------------------------------------------------------------
(* One scan call followed loop by loop.  The host calls scan synchronously *)
(* and the call runs without suspension, so every enabled step of the call *)
(* is eventually taken.                                                    *)

MaxStepLen == 3

StepWords ==
  {<<" ">>, <<"\n">>, <<"-">>, <<"-", "-">>, <<"-", "-", "-">>, <<"{", "-">>, <<"-", "}">>,
   <<"x">>}

StepTexts == {Flatten(ws) : ws \in SeqsUpTo(StepWords, MaxStepLen)}

StepSymSets == {{FOLD}, {SEMICOLON, END}}

InitStep ==
  /\ text \in StepTexts
  /\ col0 = 0
  /\ pos = 1
  /\ indents \in SeqsUpTo(0..MaxIndent, 1)
  /\ symbols = {}
  /\ entry = 1
  /\ indents0 = indents
  /\ ret = FALSE
  /\ result_symbol = Unwritten
  /\ token_end = 1
  /\ marked = FALSE
  /\ buffer = <<>>
  /\ length = 0
  /\ ckpt = NoCkpt
  /\ op = "create"
  /\ run = Idle

\* the host enters scan
Begin ==
  /\ run.pc = "idle"
  /\ \E syms \in StepSymSets :
       run' = [Idle EXCEPT !.pc = "init", !.state = state_new(pos, syms, indents)]
  /\ UNCHANGED <<text, col0, pos, indents, symbols, entry, indents0, ret, result_symbol,
                 token_end, marked, buffer, length, ckpt, op>>

\* the call takes one step of the pipeline
Step ==
  /\ run.pc \notin {"idle", "done", "returned"}
  /\ run' = step(run)
  /\ UNCHANGED <<text, col0, pos, indents, symbols, entry, indents0, ret, result_symbol,
                 token_end, marked, buffer, length, ckpt, op>>

\* eval and the return of scan to the host
Return ==
  /\ run.pc = "done"
  /\ LET ok == eval(run)
         tend == IF run.state.mark = NoMark THEN run.state.pos ELSE run.state.mark
     IN /\ indents' = run.state.indents
        /\ symbols' = run.state.symbols
        /\ entry' = pos
        /\ indents0' = indents
        /\ ret' = ok
        /\ result_symbol' = IF ok THEN run.sym ELSE result_symbol
        /\ token_end' = tend
        /\ marked' = (run.state.mark # NoMark)
        /\ pos' = IF ok THEN tend ELSE pos
  /\ op' = "scan"
  /\ run' = [run EXCEPT !.pc = "returned"]
  /\ UNCHANGED <<text, col0, buffer, length, ckpt>>

NextStep == Begin \/ Step \/ Return

SpecStep == InitStep /\ [][NextStep]_vars /\ WF_vars(Step) /\ WF_vars(Return)

-----------------------------------------------------------------------------
(* One scan call on lines of dashes: fold markers and inline comments,     *)
(* entered at the dashes, at blanks in front of them or at a newline       *)

MaxDash == 4

DashWords ==
  {<<" ">>, <<"\n">>, <<"-">>, <<"-", "-">>, <<"-", "-", "-">>, <<"x">>}

DashTexts == {Flatten(ws) : ws \in SeqsUpTo(DashWords, MaxDash)}

DashSymSets ==
  {{FOLD}, {COMMENT}, {COMMENT, FOLD}, {FOLD, START}, {COMMENT, SEMICOLON, END}, Syms}

InitDash ==
  /\ text \in DashTexts
  /\ col0 = 0
  /\ pos = 1
  /\ indents \in {<<>>, <<0>>, <<1>>}
  /\ symbols = {}
  /\ entry = 1
  /\ indents0 = indents
  /\ ret = FALSE
  /\ result_symbol = Unwritten
  /\ token_end = 1
  /\ marked = FALSE
  /\ buffer = <<>>
  /\ length = 0
  /\ ckpt = NoCkpt
  /\ op = "create"
  /\ run = Idle

ScanDash == op = "create" /\ \E syms \in DashSymSets : Scan(syms)

NextDash == ScanDash

SpecDash == InitDash /\ [][NextDash]_vars

-----------------------------------------------------------------------------
(* One scan call that crosses a newline, entered at the newline or at a    *)
(* blank in front of it, with stacks of up to two layouts                  *)

MaxLine == 3

LineWords == {<<" ">>, <<"\t">>, <<"\n">>, <<"x">>, <<"i", "n">>, <<",">>}

LineTexts ==
  {lead \o <<"\n">> \o Flatten(ws) :
     lead \in {<<>>, <<" ">>}, ws \in SeqsUpTo(LineWords, MaxLine)}

\* the columns of the open layouts: none, a space, a tab
LineIndents == {0, 1, 8}

LineStacks == SeqsUpTo(LineIndents, 2)

LineSymSets ==
  {{SEMICOLON}, {END}, {SEMICOLON, END}, {START}, {START, SEMICOLON, END},
   {SEMICOLON, IN_}, {SEMICOLON, END, IN_}, Syms}

InitLine ==
  /\ text \in LineTexts
  /\ col0 = 0
  /\ pos = 1
  /\ indents \in LineStacks
  /\ symbols = {}
  /\ entry = 1
  /\ indents0 = indents
  /\ ret = FALSE
  /\ result_symbol = Unwritten
  /\ token_end = 1
  /\ marked = FALSE
  /\ buffer = <<>>
  /\ length = 0
  /\ ckpt = NoCkpt
  /\ op = "create"
  /\ run = Idle

ScanLine == op = "create" /\ \E syms \in LineSymSets : Scan(syms)

NextLine == ScanLine

SpecLine == InitLine /\ [][NextLine]_vars

-----------------------------------------------------------------------------
(* One scan call in front of the keyword in or the identifier i, on the    *)
(* same line or on the next one, followed by terminators and other         *)
(* characters                                                              *)

MaxTail == 2

\* what follows the keyword
InTail == {" ", "\n", "(", ")", "[", "]", ",", "x"}

InTexts ==
  {lead \o head \o tail :
     lead \in {<<>>, <<" ">>, <<"\n">>, <<"\n", " ">>},
     head \in {<<"i", "n">>, <<"i">>},
     tail \in SeqsUpTo(InTail, MaxTail)}

InSymSets ==
  {{}, {IN_}, {IN_, END}, {IN_, SEMICOLON, END}, {IN_, START}, {IN_, COMMA},
   {SEMICOLON, END}, {COMMA, END}, Syms}

InitIn ==
  /\ text \in InTexts
  /\ col0 = 0
  /\ pos = 1
  /\ indents \in SeqsUpTo({0, 1}, 2)
  /\ symbols = {}
  /\ entry = 1
  /\ indents0 = indents
  /\ ret = FALSE
  /\ result_symbol = Unwritten
  /\ token_end = 1
  /\ marked = FALSE
  /\ buffer = <<>>
  /\ length = 0
  /\ ckpt = NoCkpt
  /\ op = "create"
  /\ run = Idle

ScanIn == op = "create" /\ \E syms \in InSymSets : Scan(syms)

NextIn == ScanIn

SpecIn == InitIn /\ [][NextIn]_vars

-----------------------------------------------------------------------------
(* One scan call at a dot, or at a blank in front of it                    *)

MaxDot == 2

\* what follows the dot
DotTail == {" ", "\t", "\n", "x", ".", "-"}

DotTexts ==
  {lead \o <<".">> \o tail :
     lead \in {<<>>, <<" ">>}, tail \in SeqsUpTo(DotTail, MaxDot)}

DotSymSets ==
  {{DOT}, {VARSYM}, {DOT, VARSYM}, {DOT, VARSYM, START}, {DOT, FOLD, SEMICOLON, END},
   Syms}

InitDot ==
  /\ text \in DotTexts
  /\ col0 = 0
  /\ pos = 1
  /\ indents \in {<<>>, <<0>>, <<1>>}
  /\ symbols = {}
  /\ entry = 1
  /\ indents0 = indents
  /\ ret = FALSE
  /\ result_symbol = Unwritten
  /\ token_end = 1
  /\ marked = FALSE
  /\ buffer = <<>>
  /\ length = 0
  /\ ckpt = NoCkpt
  /\ op = "create"
  /\ run = Idle

ScanDot == op = "create" /\ \E syms \in DotSymSets : Scan(syms)

NextDot == ScanDot

SpecDot == InitDot /\ [][NextDot]_vars

-----------------------------------------------------------------------------
(* One scan call at the newline in front of a line that begins with an     *)
(* operator character or a back-tick                                       *)

MaxInfix == 1

\* a line start, an operator character and what follows it
InfixTexts ==
  {<<"\n">> \o lead \o <<c>> \o tail :
     lead \in {<<>>, <<" ">>},
     c \in SYMBOLIC_CASES \cup {BACKTICK},
     tail \in SeqsUpTo({"x", "-", " ", "\n"}, MaxInfix)}

InfixSymSets ==
  {{END}, {SEMICOLON}, {SEMICOLON, END}, {SEMICOLON, END, COMMENT, FOLD},
   {DOT, VARSYM, SEMICOLON, END}, Syms}

InitInfix ==
  /\ text \in InfixTexts
  /\ col0 = 0
  /\ pos = 1
  /\ indents \in {<<>>, <<0>>, <<1>>, <<1, 8>>}
  /\ symbols = {}
  /\ entry = 1
  /\ indents0 = indents
  /\ ret = FALSE
  /\ result_symbol = Unwritten
  /\ token_end = 1
  /\ marked = FALSE
  /\ buffer = <<>>
  /\ length = 0
  /\ ckpt = NoCkpt
  /\ op = "create"
  /\ run = Idle

ScanInfix == op = "create" /\ \E syms \in InfixSymSets : Scan(syms)

NextInfix == ScanInfix

SpecInfix == InitInfix /\ [][NextInfix]_vars

-----------------------------------------------------------------------------
(* One scan call in front of a comma, a closing bracket, the keywords      *)
(* where and else or a word that begins like them, on the same line or on  *)
(* the next one                                                            *)

MaxInline == 1

InlineHeads ==
  {<<",">>, <<"]">>, <<"w", "h", "e", "r", "e">>, <<"e", "l", "s", "e">>,
   <<"w">>, <<"e">>, <<"e", "l", "s">>}

\* a line start, a head and what follows it
InlineTexts ==
  {lead \o head \o tail :
     lead \in {<<>>, <<" ">>, <<"\n">>, <<"\n", " ">>},
     head \in InlineHeads,
     tail \in SeqsUpTo({" ", "x", ",", "("}, MaxInline)}

InlineSymSets ==
  {{}, {COMMA}, {END}, {COMMA, END}, {SEMICOLON}, {SEMICOLON, END}, {WHERE},
   {WHERE, END}, {START, COMMA}, {COMMA, WHERE, SEMICOLON}, Syms}

InitInline ==
  /\ text \in InlineTexts
  /\ col0 = 0
  /\ pos = 1
  /\ indents \in SeqsUpTo({0, 1}, 2)
  /\ symbols = {}
  /\ entry = 1
  /\ indents0 = indents
  /\ ret = FALSE
  /\ result_symbol = Unwritten
  /\ token_end = 1
  /\ marked = FALSE
  /\ buffer = <<>>
  /\ length = 0
  /\ ckpt = NoCkpt
  /\ op = "create"
  /\ run = Idle

ScanInline == op = "create" /\ \E syms \in InlineSymSets : Scan(syms)

NextInline == ScanInline

SpecInline == InitInline /\ [][NextInline]_vars

-----------------------------------------------------------------------------
(* Scan calls at end-of-file with END requested and EMPTY not requested.   *)
(* The parser restarts the scanner at end-of-file until the last layout is *)
(* closed, so a scan call that can change the state is eventually made.    *)

EofSymSets == {{END}, {SEMICOLON, END}, {START, END}, Syms \ {EMPTY}}

InitEof ==
  /\ text \in SeqsUpTo({"x", " ", "\n"}, 2)
  /\ col0 = 0
  /\ pos = Len(text) + 1
  /\ indents \in SeqsUpTo(0..MaxIndent, MaxStack + 1)
  /\ symbols = {}
  /\ entry = pos
  /\ indents0 = indents
  /\ ret = FALSE
  /\ result_symbol = Unwritten
  /\ token_end = pos
  /\ marked = FALSE
  /\ buffer = <<>>
  /\ length = 0
  /\ ckpt = NoCkpt
  /\ op = "create"
  /\ run = Idle

ScanEof == \E syms \in EofSymSets : Scan(syms)

NextEof == ScanEof

SpecEof == InitEof /\ [][NextEof]_vars /\ WF_vars(ScanEof)

-----------------------------------------------------------------------------
(* Scan calls on a line whose columns reach and pass the width of a stack  *)
(* entry: the lexer reports columns as uint32_t                            *)

WideTexts == SeqsUpTo({"x", " "}, 2)

WideSymSets == {{START}, {SEMICOLON, START}, {SEMICOLON, END}}

InitWide ==
  /\ text \in WideTexts
  \* the column of the first character of the text
  /\ col0 \in {0, U16 - 1, U16, U16 + 1}
  /\ pos = 1
  /\ indents \in {<<>>, <<0>>}
  /\ symbols = {}
  /\ entry = 1
  /\ indents0 = indents
  /\ ret = FALSE
  /\ result_symbol = Unwritten
  /\ token_end = 1
  /\ marked = FALSE
  /\ buffer = <<>>
  /\ length = 0
  /\ ckpt = NoCkpt
  /\ op = "create"
  /\ run = Idle

ScanWide == \E syms \in WideSymSets : Scan(syms)

NextWide == ScanWide

SpecWide == InitWide /\ [][NextWide]_vars

-----------------------------------------------------------------------------
(* Claims *)

\* the stack without its top entry, the empty stack if it is empty
Popped(st) == IF st = <<>> THEN <<>> ELSE SubSeq(st, 1, Len(st) - 1)

\* number of spaces and tabs of the text from position p on
RECURSIVE Blanks(_)
Blanks(p) ==
  IF p <= Len(text) /\ text[p] \in {" ", "\t"} THEN 1 + Blanks(p + 1) ELSE 0

\* the last operation was a scan call entered at end-of-file
AtEof == op = "scan" /\ entry > Len(text)

\* C1 as stated: when every symbol from SEMICOLON through EMPTY is requested,
\* scan returns false and leaves the stack unchanged, at every position,
\* end-of-file included.
C1_AfterErrorEverywhere ==
  (op = "scan" /\ all_syms(symbols)) => (~ret /\ indents = indents0)

\* C1 amended: when every symbol is requested, scan leaves the stack
\* unchanged; it returns false at every position before end-of-file, and at
\* end-of-file, where the eof rule runs before the after-error check, it
\* returns true with EMPTY.
C1_AfterError ==
  (op = "scan" /\ all_syms(symbols)) =>
     /\ indents = indents0
     /\ entry <= Len(text) => ~ret
     /\ entry > Len(text) => (ret /\ result_symbol = EMPTY)

C1_Witness ==
  /\ op = "scan" /\ all_syms(symbols)
  /\ entry <= Len(text) /\ text[entry] = "x"
  /\ indents0 # <<>> /\ ~ret /\ indents = indents0

\* C2: whenever scan returns true, the symbol written to result_symbol is
\* one the requested-symbols array holds true.
C2_EmitsRequested ==
  (op = "scan" /\ ret) => result_symbol \in symbols

\* C3: serialize followed immediately by deserialize with the written buffer
\* and the returned length leaves the stack as it was, for every stack whose
\* 2 bytes per entry fit the buffer.
C3_RoundTrip ==
  [][(op = "serialize" /\ op' = "deserialize"
        /\ 2 * Len(indents) <= TREE_SITTER_SERIALIZATION_BUFFER_SIZE)
     => indents' = indents]_vars

C3_Witness ==
  /\ op = "deserialize" /\ indents = ckpt
  /\ Len(indents) = 2 /\ indents[1] = 256 /\ indents[2] = U16 - 1
  /\ length = 4

\* C4: deserialize with the buffer and the length of a checkpoint restores
\* the stack the checkpoint was taken at, whatever scan calls came between,
\* the empty stack included.
C4_RewindRestores ==
  op = "deserialize" => indents = ckpt

\* C5: across a scan call the stack grows only if the call returns START
\* and shrinks only if the call returns END or IN; a call that returns false
\* or another symbol leaves the stack as it was.
C5_StackFollowsSymbol ==
  op = "scan" =>
     /\ Len(indents) > Len(indents0) => (ret /\ result_symbol = START)
     /\ Len(indents) < Len(indents0) => (ret /\ result_symbol \in {END, IN_})
     /\ (~ret \/ result_symbol \notin {START, END, IN_}) => indents = indents0

C5_Witness ==
  /\ op = "scan" /\ ret /\ result_symbol = IN_
  /\ Len(indents) < Len(indents0)

\* the return value and result_symbol of the last scan call against the
\* outcome of the rule pipeline on the same entry state
C6_Outcome ==
  /\ result_symbol \in (Syms \ {INDENT}) \cup {Unwritten}
  /\ op = "scan" =>
       LET result == scan_all(state_new(entry, symbols, indents0))
       IN /\ ret = (result.finished /\ result.sym # FAIL)
          /\ ret => result_symbol = result.sym

\* a scan call that returns false does not write result_symbol
C6_NotWritten == (op' = "scan" /\ ~ret') => result_symbol' = result_symbol

\* C6: scan returns true exactly when the pipeline finishes with a symbol
\* other than FAIL, and only then writes that symbol to result_symbol; when
\* the pipeline ends in continue or fail, scan returns false and result_symbol
\* is not written; so result_symbol is never FAIL and never INDENT.
C6_ResultSymbol == []C6_Outcome /\ [][C6_NotWritten]_vars

C6_Witness ==
  /\ op = "scan" /\ ~ret /\ result_symbol = START
  /\ scan_all(state_new(entry, symbols, indents0)).finished

\* C8: when scan returns START, END or SEMICOLON from a position that is not
\* end-of-file, the marked token end is the entry position plus the spaces
\* and tabs skipspace skipped.
C8_DefaultMark ==
  (op = "scan" /\ ret /\ result_symbol \in {START, END, SEMICOLON}
     /\ entry <= Len(text))
  => token_end = entry + Blanks(entry)

LineStart == 2 + Blanks(2)

\* the position after the closer that matches the opener in front of p,
\* reading openers and closers left to right with depth open ones inside;
\* 0 if end-of-file comes first
RECURSIVE CloseOf(_, _)
CloseOf(p, depth) ==
  IF p >= Len(text) THEN 0
  ELSE IF text[p] = "{" /\ text[p + 1] = "-" THEN CloseOf(p + 2, depth + 1)
  ELSE IF text[p] = "-" /\ text[p + 1] = "}"
       THEN IF depth = 0 THEN p + 2 ELSE CloseOf(p + 2, depth - 1)
  ELSE CloseOf(p + 1, depth)

\* the last scan call entered the block-comment recognizer at the opener
\* that begins the line after the newline at the entry position
AtBlockComment ==
  /\ op = "scan" /\ entry = 1 /\ ~all_syms(symbols)
  /\ text # <<>> /\ text[1] = "\n"
  /\ LineStart < Len(text)
  /\ text[LineStart] = "{" /\ text[LineStart + 1] = "-"

AtOpenComment == AtBlockComment /\ CloseOf(LineStart + 2, 0) = 0

StartsWith(p, q) ==
  /\ p + Len(q) - 1 <= Len(text)
  /\ \A i \in 1..Len(q) : text[p + i - 1] = q[i]

\* the last scan call was entered at the first of three dashes, FOLD requested
DirectFold ==
  /\ op = "scan" /\ FOLD \in symbols /\ ~all_syms(symbols)
  /\ StartsWith(entry, <<"-", "-", "-">>)

\* the last scan call was entered at the newline in front of a line that
\* begins with three dashes, FOLD requested
NewlineFold ==
  /\ op = "scan" /\ FOLD \in symbols /\ ~all_syms(symbols)
  /\ StartsWith(entry, <<"\n", "-", "-", "-">>)

\* FOLD emitted, everything consumed, the end marked at end-of-file
FoldEmitted ==
  /\ ret /\ result_symbol = FOLD
  /\ marked /\ token_end = Len(text) + 1 /\ pos = Len(text) + 1
  /\ indents = indents0

C13_InlineComment ==
  LET p == entry + Blanks(entry)
  IN (op = "scan" /\ COMMENT \in symbols
        /\ StartsWith(p, <<"-", "-">>) /\ ~StartsWith(p, <<"-", "-", "-">>))
     => /\ ret /\ result_symbol = COMMENT
        /\ token_end > p + 1
        /\ \A i \in p..(token_end - 1) : ~is_newline(text[i])
        /\ token_end > Len(text) \/ is_newline(text[token_end])
        /\ indents = indents0

\* the dot rule of init fires at the entry position
DotFires == DOT \in symbols /\ StartsWith(entry, <<".">>)

\* the fold rule of init fires at the entry position
FoldFires == FOLD \in symbols /\ StartsWith(entry, <<"-", "-", "-">>)

\* the dashes at the entry position that fold reads before it gives up
FoldEaten ==
  IF FOLD \notin symbols THEN 0
  ELSE IF StartsWith(entry, <<"-", "-">>) THEN 2
  ELSE IF StartsWith(entry, <<"-">>) THEN 1
  ELSE 0

\* the position at which scan_main branches: after what fold read and after
\* the spaces and tabs that follow
Branch == entry + FoldEaten + Blanks(entry + FoldEaten)

\* the last scan call passed init and reached scan_main before end-of-file
InScanMain ==
  /\ op = "scan" /\ ~all_syms(symbols) /\ ~DotFires /\ ~FoldFires
  /\ Branch <= Len(text)

\* the last scan call took the immediate path
ImmediatePath == InScanMain /\ ~is_newline(text[Branch])

\* the last scan call took the newline path
NewlinePath == InScanMain /\ is_newline(text[Branch])

RECURSIVE IndentFrom(_, _)
IndentFrom(p, n) ==
  IF p > Len(text) THEN [indent |-> n, pos |-> p]
  ELSE IF is_newline(text[p]) THEN IndentFrom(p + 1, 0)
  ELSE IF text[p] = " " THEN IndentFrom(p + 1, n + 1)
  ELSE IF text[p] = "\t" THEN IndentFrom(p + 1, n + 8)
  ELSE [indent |-> n, pos |-> p]

\* the first non-blank line after the newline at Branch
Line == IndentFrom(Branch + 1, 0)

\* the keyword in followed by a token terminator at position p
InToken(p) ==
  /\ StartsWith(p, <<"i", "n">>)
  /\ p + 2 > Len(text) \/ token_end_char(text[p + 2])

\* the first non-blank line begins with an ordinary token character
OrdinaryStart ==
  /\ Line.pos <= Len(text)
  /\ text[Line.pos] \notin {"-", "{", ",", "]", BACKTICK} \cup SYMBOLIC_CASES
  /\ ~(IN_ \in symbols /\ InToken(Line.pos))

\* C15: on the newline path, if SEMICOLON is requested, the stack is
\* non-empty, the indent of the first non-blank line equals the top and the
\* line begins with an ordinary token character, scan emits SEMICOLON and
\* leaves the stack unchanged, also when END is requested.
C15_NewlineSemicolon ==
  (NewlinePath /\ SEMICOLON \in symbols /\ indents0 # <<>>
     /\ Line.indent = VEC_BACK(indents0) /\ OrdinaryStart)
  => (ret /\ result_symbol = SEMICOLON /\ indents = indents0)

\* C16: on the newline path, if END is requested, the stack is non-empty, the
\* indent of the first non-blank line is smaller than the top and the line
\* begins with an ordinary token character, scan pops exactly one entry and
\* emits END, also when SEMICOLON is requested and when the indent is
\* smaller than several entries.
C16_NewlineEnd ==
  (NewlinePath /\ END \in symbols /\ indents0 # <<>>
     /\ Line.indent < VEC_BACK(indents0) /\ OrdinaryStart)
  => (ret /\ result_symbol = END /\ indents = Popped(indents0))

C16_Witness ==
  /\ NewlinePath /\ symbols = {SEMICOLON, END}
  /\ text = <<"\n", " ", "x">> /\ indents0 = <<8, 8>>
  /\ ret /\ result_symbol = END /\ indents = <<8>>

\* C17: a scan call that crosses a newline never emits START and never
\* pushes, even when START is requested; with an empty stack and only START
\* requested, in front of an ordinary token, it returns false and the stack
\* stays empty.
C17_NewlineNoStart ==
  NewlinePath =>
     /\ ~(ret /\ result_symbol = START)
     /\ Len(indents) <= Len(indents0)
     /\ (symbols = {START} /\ indents0 = <<>> /\ OrdinaryStart)
          => (~ret /\ indents = <<>>)

C17_Witness ==
  /\ NewlinePath /\ symbols = {START} /\ indents0 = <<>>
  /\ text = <<" ", "\n", " ", "x">>
  /\ ~ret /\ indents = <<>>

\* a rule of immediate in front of inline_tokens fires at column col
EarlierFires(col) ==
  \/ START \in symbols
  \/ SEMICOLON \in symbols /\ indents0 # <<>> /\ col <= VEC_BACK(indents0)
  \/ END \in symbols /\ indents0 # <<>> /\ col < VEC_BACK(indents0)

\* the last scan call reached the rule in on the immediate path, at Branch
InImmediate == ImmediatePath /\ ~EarlierFires(get_column(Branch))

\* IN emitted for the keyword at position p: end mark behind it, one pop
InEmitted(p) ==
  /\ ret /\ result_symbol = IN_
  /\ marked /\ token_end = p + 2
  /\ indents = Popped(indents0)

\* what the rules behind newline_token emit at a line that begins with an
\* ordinary character: END with a pop, SEMICOLON, or nothing
NewlineIndentOutcome ==
  IF END \in symbols /\ indents0 # <<>> /\ Line.indent < VEC_BACK(indents0)
  THEN ret /\ result_symbol = END /\ indents = Popped(indents0)
  ELSE IF SEMICOLON \in symbols /\ indents0 # <<>> /\ Line.indent = VEC_BACK(indents0)
  THEN ret /\ result_symbol = SEMICOLON /\ indents = indents0
  ELSE ~ret /\ indents = indents0

\* C18: with IN requested, the keyword in followed by a token terminator,
\* on the immediate path with no earlier rule firing or as the first token
\* of the next line, is emitted as IN with the end mark right behind it and
\* one pop (none on the empty stack); with IN not requested the rule reads
\* nothing: at a token that begins with i the immediate path fails and the
\* newline path goes on with the rules of the indent at that token.
C18_In ==
  /\ (InImmediate /\ IN_ \in symbols /\ InToken(Branch)) => InEmitted(Branch)
  /\ (NewlinePath /\ IN_ \in symbols /\ InToken(Line.pos)) => InEmitted(Line.pos)
  /\ (InImmediate /\ IN_ \notin symbols /\ text[Branch] = "i")
       => (~ret /\ indents = indents0)
  /\ (NewlinePath /\ IN_ \notin symbols /\ StartsWith(Line.pos, <<"i">>))
       => NewlineIndentOutcome

C18_Witness ==
  /\ InImmediate /\ symbols = {IN_}
  /\ text = <<"i", "n", " ", "x">> /\ indents0 = <<0, 1>>
  /\ ret /\ result_symbol = IN_ /\ token_end = 3 /\ indents = <<0>>

\* C19: with DOT requested (not every symbol), a dot at the entry position
\* is consumed and emitted as VARSYM if VARSYM is requested too and
\* whitespace follows the dot, and otherwise as DOT with the end mark right
\* behind the dot; the stack is unchanged and no later rule runs.
C19_Dot ==
  (op = "scan" /\ DOT \in symbols /\ ~all_syms(symbols) /\ StartsWith(entry, <<".">>))
  => /\ ret /\ pos = entry + 1 /\ token_end = entry + 1
     /\ indents = indents0
     /\ IF VARSYM \in symbols /\ entry + 1 <= Len(text) /\ iswspace(text[entry + 1])
        THEN result_symbol = VARSYM
        ELSE result_symbol = DOT /\ marked

C19_Witness ==
  /\ op = "scan" /\ symbols = {DOT, VARSYM, START} /\ entry = 1
  /\ text = <<".", " ", "x">> /\ indents0 = <<0>>
  /\ ret /\ result_symbol = VARSYM /\ indents = <<0>>

\* C20: deserialize called with length 0 leaves the stack as it is, same
\* length and same entries, whatever the stack holds; it does not clear it.
C20_DeserializeNothing ==
  [][(op' = "deserialize" /\ length = 0) => indents' = indents]_vars

C20_Witness ==
  /\ op = "deserialize" /\ length = 0 /\ ckpt = <<>>
  /\ indents = <<0, 0>>

\* what a serialize call leaves: the stack as it was; 2 bytes per entry
\* written bottom-to-top and their number returned if they fit the buffer,
\* else 0 returned and the buffer as it was
SerializeEffect ==
  op' = "serialize" =>
     /\ indents' = indents
     /\ IF 2 * Len(indents) <= TREE_SITTER_SERIALIZATION_BUFFER_SIZE
        THEN /\ length' = 2 * Len(indents)
             /\ Len(buffer') >= length'
             /\ \A i \in 1..Len(indents) :
                  buffer'[2 * i - 1] + 256 * buffer'[2 * i] = indents[i]
             /\ \A j \in (length' + 1)..Len(buffer') : buffer'[j] = buffer[j]
        ELSE length' = 0 /\ buffer' = buffer

\* C21: serialize returns 2 x (stack length) and writes the entries
\* bottom-to-top when that byte count is at most the buffer cap; when it
\* exceeds the cap it returns 0 and writes nothing; the stack is not modified.
C21_Serialize == [][SerializeEffect]_vars

C21_Witness ==
  /\ op = "serialize" /\ Len(indents) = CapEntries + 1
  /\ length = 0 /\ buffer = <<7, 7, 7, 7, 7, 7>>

CommaOutcome(p) ==
  IF COMMA \in symbols
  THEN /\ ret /\ result_symbol = COMMA
       /\ marked /\ token_end = p + 1
       /\ indents = indents0
  ELSE IF END \in symbols
  THEN ret /\ result_symbol = END /\ indents = Popped(indents0)
  ELSE ~ret /\ indents = indents0

\* the last scan call reached close_layout_in_list on the newline path, at
\* the first character of the line
InNewlineList ==
  /\ NewlinePath /\ Line.pos <= Len(text)
  /\ ~(END \in symbols /\ indents0 # <<>> /\ Line.indent < VEC_BACK(indents0))

\* C24: close_layout_in_list at a comma emits COMMA with the end mark right
\* behind the comma and the stack unchanged if COMMA is requested, else pops
\* one entry and emits END if END is requested, else scan returns false with
\* the stack unchanged.  At a closing bracket with END requested it pops one
\* entry and emits END without consuming the bracket; with END not
\* requested the rule continues.
C24_CloseLayoutInList ==
  /\ (InImmediate /\ text[Branch] = ",") => CommaOutcome(Branch)
  /\ (InNewlineList /\ text[Line.pos] = ",") => CommaOutcome(Line.pos)
  /\ (InImmediate /\ text[Branch] = "]") =>
       IF END \in symbols
       THEN ret /\ result_symbol = END /\ indents = Popped(indents0) /\ token_end = Branch
       ELSE ~ret /\ indents = indents0
  /\ (InNewlineList /\ text[Line.pos] = "]") =>
       IF END \in symbols
       THEN ret /\ result_symbol = END /\ indents = Popped(indents0) /\ token_end = Branch
       ELSE IF SEMICOLON \in symbols /\ indents0 # <<>> /\ Line.indent = VEC_BACK(indents0)
       THEN ret /\ result_symbol = SEMICOLON /\ indents = indents0
       ELSE ~ret /\ indents = indents0

C24_Witness ==
  /\ InImmediate /\ symbols = {END}
  /\ text = <<" ", ",", "x">> /\ indents0 = <<0, 1>>
  /\ ret /\ result_symbol = END /\ indents = <<0>>

\* the word w followed by a token terminator at position p
KeywordToken(p, w) ==
  /\ StartsWith(p, w)
  /\ p + Len(w) > Len(text) \/ token_end_char(text[p + Len(w)])

WhereToken(p) == KeywordToken(p, <<"w", "h", "e", "r", "e">>)

ElseToken(p) == KeywordToken(p, <<"e", "l", "s", "e">>)

\* C25: on the immediate path with no earlier rule firing, the keyword where
\* followed by a token terminator is emitted as WHERE with the end mark
\* behind the keyword and the stack unchanged if WHERE is requested, else
\* END is emitted with one pop if END is requested, else scan returns false;
\* the keyword else followed by a token terminator, with END requested, gives
\* END with one pop; a word that begins with w or e and is not the keyword
\* makes scan return false with the stack unchanged.
C25_WhereElse ==
  /\ (InImmediate /\ WhereToken(Branch)) =>
       IF WHERE \in symbols
       THEN /\ ret /\ result_symbol = WHERE
            /\ marked /\ token_end = Branch + 5
            /\ indents = indents0
       ELSE IF END \in symbols
       THEN ret /\ result_symbol = END /\ indents = Popped(indents0)
       ELSE ~ret /\ indents = indents0
  /\ (InImmediate /\ ElseToken(Branch) /\ END \in symbols) =>
       (ret /\ result_symbol = END /\ indents = Popped(indents0))
  /\ (InImmediate /\ text[Branch] \in {"w", "e"}
        /\ ~WhereToken(Branch) /\ ~ElseToken(Branch)) =>
       (~ret /\ indents = indents0)

C25_Witness ==
  /\ InImmediate /\ symbols = {END}
  /\ text = <<"w", "h", "e", "r", "e", " ">> /\ indents0 = <<0, 0>>
  /\ ret /\ result_symbol = END /\ indents = <<0>>

\* C26: a scan call leaves the stack as it was, or with one entry appended,
\* or with its last entry removed; the entries below the top are not
\* modified and a pop of the empty stack leaves it empty, after any sequence
\* of scan calls.
C26_OneOperation ==
  op = "scan" =>
     \/ indents = indents0
     \/ /\ Len(indents) = Len(indents0) + 1
        /\ SubSeq(indents, 1, Len(indents0)) = indents0
     \/ /\ indents0 # <<>>
        /\ indents = SubSeq(indents0, 1, Len(indents0) - 1)

C26_Witness ==
  /\ op = "scan" /\ ret /\ result_symbol = END
  /\ Len(indents0) = 2 /\ indents0[1] # indents0[2]
  /\ indents = <<indents0[1]>>

\* a scan call at end-of-file with END requested and EMPTY not requested
\* returns END and removes the top entry, if there is one
EofCloses ==
  (op' = "scan" /\ pos > Len(text) /\ END \in symbols' /\ EMPTY \notin symbols')
  => (ret' /\ result_symbol' = END /\ indents' = Popped(indents))

\* C27: from a stack of length n, the scan calls at end-of-file with END
\* requested and EMPTY not requested return END every time and shorten the
\* stack by exactly one while it is non-empty, so the stack is empty after n
\* calls and stays empty.
C27_EofClosesAll == [][EofCloses]_vars /\ <>[](indents = <<>>)

C27_Witness ==
  /\ op = "scan" /\ entry > Len(text) /\ symbols = {END}
  /\ ret /\ result_symbol = END
  /\ indents0 = <<1>> /\ indents = <<>>

\* C28: after scan emits START, the new top of the stack equals the column
\* the lexer reported for the token, for every column the host can report,
\* so that a later token at that column compares equal to the top and one
\* at a smaller column compares smaller.
C28_TopIsColumn ==
  (ImmediatePath /\ ret /\ result_symbol = START)
  => (indents # <<>> /\ VEC_BACK(indents) = get_column(Branch))

\* an iteration of a loop that stays in the loop consumes exactly one character
C7_ConsumesOne ==
  (run.pc \in LoopPlaces /\ run'.pc = run.pc) =>
     (run.state.pos <= Len(text) /\ run'.state.pos = run.state.pos + 1)

\* an iteration of a loop that stays in the loop consumes at least one character
C7_LoopConsumes ==
  (run.pc \in LoopPlaces /\ run'.pc = run.pc) =>
     (run.state.pos <= Len(text) /\ run'.state.pos > run.state.pos)

\* the scan call that was entered returns to the host
C7_Returns == (run.pc # "idle") ~> (run.pc = "returned")

\* C7 as stated: every scan call terminates, each iteration of skipspace,
\* count_indent, inline_comment, multiline_comment and the advance-to-eof
\* loops of fold and minus consuming one character or leaving the loop.
C7_OneCharacterPerIteration == [][C7_ConsumesOne]_vars /\ C7_Returns

\* C7 amended: every scan call terminates: each iteration of those loops
\* consumes at least one character (multiline_comment two at an opener or a
\* closer) or leaves the loop.
C7_Terminates == [][C7_LoopConsumes]_vars /\ C7_Returns

C7_Witness ==
  /\ run.pc = "returned" /\ op = "scan" /\ ~ret
  /\ run.level = 1 /\ is_eof(run.state)

\* the call followed loop by loop ends as scan_all does
StepAgreesWithScanAll ==
  run.pc = "done" =>
    LET result == scan_all(state_new(pos, run.state.symbols, indents))
    IN /\ result.finished = run.finished /\ result.sym = run.sym
       /\ result.state = run.state

====
